---- MODULE Spec2Model ----
(***************************************************************************)
(* MaskHintRCNN (mmdet/models/detectors/mask_scoring_rcnn_MH.py).          *)
(*                                                                         *)
(* The detector's two entry points, forward_train and simple_test (with    *)
(* refine_test_bboxes and simple_test_mask), as a state machine over the   *)
(* statements of the source, and the two mask binarizations as operators.  *)
(*                                                                         *)
(* A tensor whose first dimension is "regions" is modelled by the sequence *)
(* of the regions its rows belong to; a region (RoI) is <<image, box>>.    *)
(* In training a box is the identifier of a sampled proposal, in inference *)
(* it is one representative coordinate of the box, so that the             *)
(* multiplications and divisions by scale_factor are computed.             *)
(* Every invocation of a collaborator (backbone, heads, RoI extractors)    *)
(* is appended to the call log `calls`.                                    *)
(***************************************************************************)
EXTENDS Integers, Sequences, FiniteSets, TLC

\* ------------------------------------------------------------------ bounds
MaxImgs == 2        \* images in a training batch
MaxPos == 2         \* positive samples per image
MaxNeg == 1         \* negative samples per image
MaxDets == 2        \* proposals / detections of the test image
NumClasses == 3     \* num_classes of the heads (background included)
MaxScale == 2       \* scale factors 1..MaxScale
ProbScale == 2      \* a probability is v / ProbScale, v \in 0..ProbScale
NumPix == 2         \* pixels of one mask channel

\* ------------------------------------------------------------ value spaces
Absent == "<absent>"
RefineSampleValues == {"resample", "interpolate", "max_pool", Absent}

RECURSIVE Fact(_)
Fact(n) == IF n <= 1 THEN 1 ELSE n * Fact(n - 1)

\* Test-resolution coordinates are multiples of BoxUnit, so that every
\* division by a scale factor that the code performs is exact.
BoxUnit == Fact(MaxScale) * Fact(MaxScale)
ScaleFactors == 1..MaxScale
BoxSeq(n) == [k \in 1..n |-> k * BoxUnit]
IdSeq(lo, n) == [k \in 1..n |-> lo + k - 1]
FgLabels == 0..(NumClasses - 2)
\* a mask prediction of one region: the background channel and one foreground
\* channel, NumPix probabilities each
MaskPreds == [1..(1 + 1) -> [1..NumPix -> 0..ProbScale]]

NoProposals == [given |-> FALSE, boxes |-> <<>>]

Call(fn, line, regions, mask, out) ==
    [fn |-> fn, line |-> line, rois |-> regions, mask |-> mask, out |-> out]

\* --------------------------------------------------------- pure operators
RECURSIVE TagFrom(_, _)
TagFrom(bbox_list, img_id) ==
    IF bbox_list = <<>> THEN <<>>
    ELSE [k \in 1..Len(Head(bbox_list)) |-> <<img_id, Head(bbox_list)[k]>>]
         \o TagFrom(Tail(bbox_list), img_id + 1)

\* mmdet.core.bbox2roi: the boxes of image i, tagged with i, in image order.
bbox2roi(bbox_list) == TagFrom(bbox_list, 0)

RoiBoxes(regions) == [k \in 1..Len(regions) |-> regions[k][2]]

\* SamplingResult.bboxes: the positives followed by the negatives.
res_bboxes(res) == res.pos \o res.neg

RECURSIVE pos_inds_of(_)
\* lines 131-144: ones(num pos) then zeros(num neg), image after image.
pos_inds_of(results) ==
    IF results = <<>> THEN <<>>
    ELSE [k \in 1..Len(Head(results).pos) |-> 1]
         \o [k \in 1..Len(Head(results).neg) |-> 0]
         \o pos_inds_of(Tail(results))

RECURSIVE MaskSelect(_, _)
MaskSelect(rows, inds) ==
    IF rows = <<>> \/ inds = <<>> THEN <<>>
    ELSE (IF Head(inds) = 1 THEN <<Head(rows)>> ELSE <<>>)
         \o MaskSelect(Tail(rows), Tail(inds))

IndexAllRows(feats, inds) == feats
\* line 145: bbox_feats[pos_inds], indexing by a uint8 indicator.
IndexByMask(feats, inds) == MaskSelect(feats, inds)

LossesReplace(losses, terms) == terms
\* lines 68, 118, 156, 175: losses.update(terms).
losses_update(losses, terms) == losses \cup terms

RefineArgProposals(dets, props) == props
\* line 278: the boxes simple_test hands to refine_test_bboxes.
RefineArg(dets, props) == dets

\* lines 208-209: det_bboxes[:, :4] * scale_factor if rescale else det_bboxes
ToTestScale(boxes, scale_factor, rescale) ==
    IF rescale THEN [k \in 1..Len(boxes) |-> boxes[k] * scale_factor] ELSE boxes

\* bbox_head.get_det_bboxes: delta2bbox on the rois (a relative shift),
\* division by scale_factor when rescale, then score threshold / NMS (the
\* first `keep` boxes survive).
get_det_bboxes(regions, shift, scale_factor, rescale, keep) ==
    [k \in 1..keep |->
        IF rescale THEN (regions[k][2] * (1 + shift)) \div scale_factor
        ELSE regions[k][2] * (1 + shift)]

\* mmdet.core.bbox2result: the boxes of each foreground class, class by class.
bbox2result(bboxes, labels, num_classes) ==
    [c \in 1..(num_classes - 1) |->
        LET pairs == [k \in 1..Len(bboxes) |-> <<bboxes[k], labels[k]>>]
            sel == SelectSeq(pairs, LAMBDA p : p[2] = c - 1)
        IN [k \in 1..Len(sel) |-> sel[k][1]]]

\* mask_iou_head.get_target: one target per positive region, image by image.
refine_get_target(results) ==
    TagFrom([i \in 1..Len(results) |-> results[i].pos], 0)

\* ------------------------------------------------------- mask binarization
DropBackground(mask) == Tail(mask)                    \* [:, 1:, :, :]
ThresholdGt(mask, thr) ==
    [c \in 1..Len(mask) |->
        [p \in 1..Len(mask[c]) |-> IF mask[c][p] > thr THEN ProbScale ELSE 0]]
ThresholdGe(mask, thr) ==
    [c \in 1..Len(mask) |->
        [p \in 1..Len(mask[c]) |-> IF mask[c][p] >= thr THEN ProbScale ELSE 0]]

TrainBinarizationStrict(mask_pred, thr) == ThresholdGt(DropBackground(mask_pred), thr)
\* line 168: (mask_pred.detach()[:,1:,:,:] >= mask_thr_binary).float()
TrainBinarization(mask_pred, thr) == ThresholdGe(DropBackground(mask_pred), thr)

\* line 249: (mask_pred > mask_thr_binary).float(), mask_pred sliced at 238
TestBinarization(mask_pred, thr) == ThresholdGt(mask_pred, thr)

IsBinary(mask) ==
    \A c \in 1..Len(mask) : \A p \in 1..Len(mask[c]) : mask[c][p] \in {0, ProbScale}

\* ---------------------------------------------------------------- state
VARIABLES
    with_rpn, with_bbox, with_mask, share_roi_extractor, with_shared_head,
    train_cfg, test_cfg,
    entry, pc, err, calls, args, bound,
    proposal_list, sampling_results, rois, bbox_feats, pos_rois, mask_feats,
    mask_pred, refine_feats, refine_targets, losses,
    det_bboxes, det_labels, refine_proposals, roi_feats, bbox_results, result,
    bin_mask, bin_thr, bin_train, bin_test, bin_done

cfgvars == <<with_rpn, with_bbox, with_mask, share_roi_extractor,
             with_shared_head, train_cfg, test_cfg, entry>>
trainvars == <<sampling_results, bbox_feats, pos_rois, mask_feats, refine_targets,
               losses>>
testvars == <<det_bboxes, det_labels, refine_proposals, roi_feats, bbox_results,
              result>>
sharedvars == <<proposal_list, rois, mask_pred, refine_feats>>
binvars == <<bin_mask, bin_thr, bin_train, bin_test, bin_done>>
vars == <<cfgvars, pc, err, calls, args, bound, trainvars, testvars, sharedvars,
          binvars>>

\* ----------------------------------------------------------------- Init
NoArgs == [num_imgs |-> 0, proposals |-> NoProposals, rescale |-> FALSE,
           scale_factor |-> 1]

LocalsInit ==
    /\ err = "none" /\ calls = <<>> /\ args = NoArgs /\ bound = {}
    /\ proposal_list = NoProposals /\ sampling_results = <<>> /\ rois = <<>>
    /\ bbox_feats = <<>> /\ pos_rois = <<>> /\ mask_feats = <<>>
    /\ mask_pred = <<>> /\ refine_feats = <<>> /\ refine_targets = <<>>
    /\ losses = {}
    /\ det_bboxes = <<>> /\ det_labels = <<>> /\ refine_proposals = <<>>
    /\ roi_feats = <<>> /\ bbox_results = <<>> /\ result = <<>>

BinIdle ==
    /\ bin_mask = <<>> /\ bin_thr = 0 /\ bin_train = <<>> /\ bin_test = <<>>
    /\ bin_done = {}

\* The detector as constructed (lines 17-43), about to run forward_train:
\* the head flags and train_cfg.rcnn.refine_sample take every value; the
\* test_cfg keys that forward_train never reads are fixed.
InitTrain ==
    /\ with_rpn \in BOOLEAN /\ with_bbox \in BOOLEAN /\ with_mask \in BOOLEAN
    /\ share_roi_extractor \in BOOLEAN /\ with_shared_head \in BOOLEAN
    /\ train_cfg \in [refine_sample : RefineSampleValues]
    /\ test_cfg = [refine_sample |-> "interpolate", rcnn |-> TRUE]
    /\ entry = "forward_train" /\ pc = "forward_train"
    /\ LocalsInit /\ BinIdle

\* The detector as constructed, about to run simple_test: the head flags,
\* test_cfg.rcnn.refine_sample and the presence of test_cfg.rcnn.rcnn (the
\* object line 249 reads mask_thr_binary from) take every value.
InitTest ==
    /\ with_rpn \in BOOLEAN /\ with_bbox \in BOOLEAN /\ with_mask \in BOOLEAN
    /\ share_roi_extractor \in BOOLEAN /\ with_shared_head \in BOOLEAN
    /\ train_cfg = [refine_sample |-> "interpolate"]
    /\ test_cfg \in [refine_sample : RefineSampleValues, rcnn : BOOLEAN]
    /\ entry = "simple_test" /\ pc = "simple_test"
    /\ LocalsInit /\ BinIdle

Init == InitTrain \/ InitTest

Raise(e, newcalls) ==
    /\ pc' = "raised"
    /\ err' = e
    /\ calls' = calls \o newcalls

SharedHeadCall(line, regions) ==
    IF with_shared_head THEN <<Call("shared_head", line, regions, <<>>, <<>>)>>
    ELSE <<>>

\* -------------------------------------------------------- forward_train
\* lines 57-59: x = self.extract_feat(img); losses = dict()
ForwardTrain_extract_feat ==
    /\ pc = "forward_train"
    /\ \E n \in 1..MaxImgs, given \in BOOLEAN :
          args' = [num_imgs |-> n,
                   proposals |-> [given |-> given, boxes |-> <<>>],
                   rescale |-> FALSE, scale_factor |-> 1]
    /\ calls' = Append(calls, Call("extract_feat", 57, <<>>, <<>>, <<>>))
    /\ losses' = {}
    /\ pc' = "rpn"
    /\ UNCHANGED <<cfgvars, err, bound, sampling_results, bbox_feats, pos_rois,
                   mask_feats, refine_targets, testvars, sharedvars, binvars>>

\* lines 62-75: RPN forward, loss and proposals, or the caller's proposals
ForwardTrain_rpn ==
    /\ pc = "rpn"
    /\ IF with_rpn
       THEN /\ calls' = calls \o <<Call("rpn_head", 63, <<>>, <<>>, <<>>),
                                   Call("rpn_head.loss", 66, <<>>, <<>>, <<>>),
                                   Call("rpn_head.get_bboxes", 73, <<>>, <<>>, <<>>)>>
            /\ losses' = losses_update(losses, {"loss_rpn"})
            /\ proposal_list' = [given |-> TRUE, boxes |-> <<>>]
       ELSE /\ proposal_list' = args.proposals
            /\ UNCHANGED <<calls, losses>>
    /\ pc' = "assign_sample"
    /\ UNCHANGED <<cfgvars, err, args, bound, sampling_results, bbox_feats,
                   pos_rois, mask_feats, refine_targets, testvars, rois,
                   mask_pred, refine_feats, binvars>>

SamplingChoices(n) ==
    [1..n -> {[pos |-> IdSeq(1, np), neg |-> IdSeq(np + 1, nn)] :
                 np \in 0..MaxPos, nn \in 0..MaxNeg}]

AssignSampleCalls(n) ==
    LET RECURSIVE PerImage(_)
        PerImage(i) == IF i > n THEN <<>>
                       ELSE <<Call("assign", 87, <<>>, <<>>, <<i - 1>>),
                              Call("sample", 91, <<>>, <<>>, <<i - 1>>)>>
                            \o PerImage(i + 1)
    IN PerImage(1)

BuildCalls == <<Call("build_assigner", 79, <<>>, <<>>, <<>>),
                Call("build_sampler", 80, <<>>, <<>>, <<>>)>>

\* lines 78-97: assign gts and sample proposals, image by image
ForwardTrain_assign_sample ==
    /\ pc = "assign_sample"
    /\ \/ /\ ~(with_bbox \/ with_mask)
          /\ pc' = "bbox"
          /\ UNCHANGED <<err, calls, bound, sampling_results>>
       \/ /\ with_bbox \/ with_mask
          /\ ~proposal_list.given           \* proposal_list[i] with None
          /\ Raise("TypeError:proposal_list@87", BuildCalls)
          /\ sampling_results' = <<>>       \* line 85 ran before line 87 raises
          /\ bound' = bound \cup {"sampling_results"}
       \/ /\ with_bbox \/ with_mask
          /\ proposal_list.given
          /\ \E sr \in SamplingChoices(args.num_imgs) : sampling_results' = sr
          /\ calls' = calls \o BuildCalls \o AssignSampleCalls(args.num_imgs)
          /\ bound' = bound \cup {"sampling_results"}
          /\ pc' = "bbox"
          /\ UNCHANGED err
    /\ UNCHANGED <<cfgvars, args, bbox_feats, pos_rois, mask_feats,
                   refine_targets, losses, testvars, sharedvars, binvars>>

\* lines 100-118: bbox head forward and loss
ForwardTrain_bbox ==
    /\ pc = "bbox"
    /\ IF with_bbox
       THEN LET r == bbox2roi([i \in 1..Len(sampling_results) |->
                                  res_bboxes(sampling_results[i])])
            IN /\ rois' = r
               /\ bbox_feats' = r
               /\ calls' = calls \o <<Call("bbox_roi_extractor", 103, r, <<>>, <<>>)>>
                                 \o SharedHeadCall(107, r)
                                 \o <<Call("bbox_head", 110, r, <<>>, <<>>),
                                      Call("bbox_head.get_target", 112, <<>>, <<>>, <<>>),
                                      Call("bbox_head.loss", 116, <<>>, <<>>, <<>>)>>
               /\ losses' = losses_update(losses, {"loss_bbox"})
               /\ bound' = bound \cup {"bbox_feats"}
       ELSE UNCHANGED <<rois, bbox_feats, calls, losses, bound>>
    /\ pc' = "mask"
    /\ UNCHANGED <<cfgvars, err, args, sampling_results, pos_rois, mask_feats,
                   refine_targets, testvars, proposal_list, mask_pred,
                   refine_feats, binvars>>

MaskHeadCalls(regions) ==
    <<Call("mask_head", 146, regions, <<>>, <<>>),
      Call("mask_head.get_target", 148, <<>>, <<>>, <<>>),
      Call("mask_head.loss", 154, <<>>, <<>>, <<>>)>>

\* lines 122-156: mask head forward and loss
ForwardTrain_mask ==
    /\ pc = "mask"
    /\ \/ /\ ~with_mask
          /\ pc' = "return"
          /\ UNCHANGED <<err, calls, bound, pos_rois, mask_feats, mask_pred, losses>>
       \/ /\ with_mask /\ ~share_roi_extractor
          /\ LET pr == bbox2roi([i \in 1..Len(sampling_results) |->
                                    sampling_results[i].pos])
             IN /\ pos_rois' = pr
                /\ mask_feats' = pr
                /\ mask_pred' = pr
                /\ calls' = calls \o <<Call("mask_roi_extractor", 126, pr, <<>>, <<>>)>>
                                  \o SharedHeadCall(129, pr)
                                  \o MaskHeadCalls(pr)
          /\ bound' = bound \cup {"pos_rois"}
          /\ losses' = losses_update(losses, {"loss_mask"})
          /\ pc' = "refine_feats"
          /\ UNCHANGED err
       \/ /\ with_mask /\ share_roi_extractor
          /\ "bbox_feats" \notin bound       \* device = bbox_feats.device
          /\ Raise("UnboundLocalError:bbox_feats@132", <<>>)
          /\ UNCHANGED <<bound, pos_rois, mask_feats, mask_pred, losses>>
       \/ /\ with_mask /\ share_roi_extractor
          /\ "bbox_feats" \in bound
          /\ LET mf == IndexByMask(bbox_feats, pos_inds_of(sampling_results))
             IN /\ mask_feats' = mf
                /\ mask_pred' = mf
                /\ calls' = calls \o MaskHeadCalls(mf)
          /\ losses' = losses_update(losses, {"loss_mask"})
          /\ pc' = "refine_feats"
          /\ UNCHANGED <<err, bound, pos_rois>>
    /\ UNCHANGED <<cfgvars, args, sampling_results, bbox_feats, refine_targets,
                   testvars, proposal_list, rois, refine_feats, binvars>>

\* lines 162-167: the refinement features, by train_cfg.rcnn.refine_sample
ForwardTrain_refine_feats ==
    /\ pc = "refine_feats"
    /\ \/ /\ train_cfg.refine_sample = Absent
          /\ Raise("AttributeError:refine_sample@162", <<>>)
          /\ UNCHANGED refine_feats
       \/ /\ train_cfg.refine_sample = "resample"
          /\ ~with_bbox                      \* no self.bbox_roi_extractor
          /\ Raise("AttributeError:bbox_roi_extractor@163", <<>>)
          /\ UNCHANGED refine_feats
       \/ /\ train_cfg.refine_sample = "resample"
          /\ "pos_rois" \notin bound         \* set on line 124 only
          /\ Raise("UnboundLocalError:pos_rois@163", <<>>)
          /\ UNCHANGED refine_feats
       \/ /\ train_cfg.refine_sample = "resample"
          /\ "pos_rois" \in bound
          /\ refine_feats' = pos_rois
          /\ calls' = Append(calls, Call("bbox_roi_extractor", 163, pos_rois, <<>>, <<>>))
          /\ pc' = "refine"
          /\ UNCHANGED err
       \/ /\ train_cfg.refine_sample = "interpolate"
          /\ refine_feats' = mask_feats
          /\ calls' = Append(calls, Call("F.interpolate", 165, mask_feats, <<>>, <<>>))
          /\ pc' = "refine"
          /\ UNCHANGED err
       \/ /\ train_cfg.refine_sample \notin {Absent, "resample", "interpolate"}
          /\ Raise("TypeError:max_pool2d@167", <<>>)   \* kernel_size missing
          /\ UNCHANGED refine_feats
    /\ UNCHANGED <<cfgvars, args, bound, trainvars, testvars, proposal_list,
                   rois, mask_pred, binvars>>

\* lines 168-175: binarize, refinement head forward, targets and loss
ForwardTrain_refine ==
    /\ pc = "refine"
    /\ refine_targets' = refine_get_target(sampling_results)
    /\ calls' = calls \o <<Call("mask_iou_head", 169, refine_feats, mask_pred, <<>>),
                           Call("mask_iou_head.get_target", 170, <<>>, <<>>, <<>>),
                           Call("mask_iou_head.loss", 173, <<>>, <<>>, <<>>)>>
    /\ losses' = losses_update(losses, {"loss_refine"})
    /\ bound' = bound \cup {"refine_targets"}
    /\ pc' = "return"
    /\ UNCHANGED <<cfgvars, err, args, sampling_results, bbox_feats, pos_rois,
                   mask_feats, testvars, sharedvars, binvars>>

\* line 190: return losses
ForwardTrain_return ==
    /\ pc = "return"
    /\ pc' = "returned"
    /\ UNCHANGED <<cfgvars, err, calls, args, bound, trainvars, testvars,
                   sharedvars, binvars>>

NextTrain ==
    \/ ForwardTrain_extract_feat
    \/ ForwardTrain_rpn
    \/ ForwardTrain_assign_sample
    \/ ForwardTrain_bbox
    \/ ForwardTrain_mask
    \/ ForwardTrain_refine_feats
    \/ ForwardTrain_refine
    \/ ForwardTrain_return

\* ---------------------------------------------------------- simple_test
TestInputs ==
    {[num_imgs |-> 1, proposals |-> p, rescale |-> r, scale_factor |-> f] :
        p \in {NoProposals} \cup {[given |-> TRUE, boxes |-> BoxSeq(n)] : n \in 0..MaxDets},
        r \in BOOLEAN, f \in ScaleFactors}

\* lines 266-268: assert self.with_bbox; x = self.extract_feat(img)
SimpleTest_extract_feat ==
    /\ pc = "simple_test"
    /\ \E a \in TestInputs : args' = a
    /\ IF with_bbox
       THEN /\ calls' = Append(calls, Call("extract_feat", 268, <<>>, <<>>, <<>>))
            /\ pc' = "propose"
            /\ UNCHANGED err
       ELSE Raise("AssertionError:with_bbox@266", <<>>)
    /\ UNCHANGED <<cfgvars, bound, trainvars, testvars, sharedvars, binvars>>

\* lines 270-271: simple_test_rpn, or the caller's proposals
SimpleTest_propose ==
    /\ pc = "propose"
    /\ \/ /\ args.proposals.given
          /\ proposal_list' = args.proposals
          /\ pc' = "simple_test_bboxes"
          /\ UNCHANGED <<err, calls>>
       \/ /\ ~args.proposals.given /\ with_rpn
          /\ \E n \in 0..MaxDets :
                /\ proposal_list' = [given |-> TRUE, boxes |-> BoxSeq(n)]
                /\ calls' = Append(calls, Call("simple_test_rpn", 270, <<>>, <<>>,
                                               BoxSeq(n)))
          /\ pc' = "simple_test_bboxes"
          /\ UNCHANGED err
       \/ /\ ~args.proposals.given /\ ~with_rpn    \* no self.rpn_head
          /\ Raise("AttributeError:rpn_head@270", <<>>)
          /\ UNCHANGED proposal_list
    /\ UNCHANGED <<cfgvars, args, bound, trainvars, testvars, rois, mask_pred,
                   refine_feats, binvars>>

\* lines 272-274: first-pass box scoring (BBoxTestMixin.simple_test_bboxes)
SimpleTest_simple_test_bboxes ==
    /\ pc = "simple_test_bboxes"
    /\ LET r == bbox2roi(<<proposal_list.boxes>>)
       IN \E shift \in {0, 1}, keep \in 0..Len(r) :
             LET dets == get_det_bboxes(r, shift, args.scale_factor, args.rescale, keep)
             IN /\ det_bboxes' = dets
                /\ det_labels' = [k \in 1..keep |-> 0]
                /\ calls' = calls \o <<Call("bbox_roi_extractor", 272, r, <<>>, <<>>)>>
                                  \o SharedHeadCall(272, r)
                                  \o <<Call("bbox_head", 272, r, <<>>, <<>>),
                                       Call("bbox_head.get_det_bboxes", 272, r, <<>>, dets)>>
    /\ pc' = "refine_test_bboxes"
    /\ UNCHANGED <<cfgvars, err, args, bound, trainvars, refine_proposals, roi_feats,
                   bbox_results, result, sharedvars, binvars>>

\* line 235, rois = bbox2roi(proposals): simple_test passes the det_bboxes
\* tensor itself, not a list of per-image tensors (contrast line 210).
\* mmdet.core.bbox2roi enumerates its argument as images: on the rows of a
\* tensor it raises (IndexError on a 1-d row indexed [:, :4], RuntimeError
\* from torch.cat of an empty list when there is no row).
Bbox2roiTensorError(boxes) ==
    IF Len(boxes) = 0 THEN "RuntimeError:bbox2roi@235" ELSE "IndexError:bbox2roi@235"

\* lines 277-278 and 235-238: refine_test_bboxes pools mask-RoI features from
\* the boxes it is given and runs the mask head.  Line 235 either raises, or,
\* with a bbox2roi that takes the tensor as the boxes of one image, goes on.
Refine_pool ==
    /\ pc = "refine_test_bboxes"
    /\ LET p == RefineArg(det_bboxes, proposal_list.boxes)
           r == bbox2roi(<<p>>)
           pool == Call("mask_roi_extractor", 236, r, <<>>, <<>>)
       IN /\ refine_proposals' = p
          /\ \/ /\ Raise(Bbox2roiTensorError(p), <<>>)
                /\ UNCHANGED <<rois, roi_feats, mask_pred>>
             \/ /\ rois' = r
                /\ with_mask
                /\ roi_feats' = r
                /\ mask_pred' = r
                /\ calls' = calls \o <<pool, Call("mask_head", 238, r, <<>>, <<>>)>>
                /\ pc' = "refine_feats_test"
                /\ UNCHANGED err
             \/ /\ rois' = r
                /\ ~with_mask                 \* no self.mask_roi_extractor
                /\ Raise("AttributeError:mask_roi_extractor@236", <<>>)
                /\ UNCHANGED <<roi_feats, mask_pred>>
             \/ /\ rois' = r
                /\ ~with_mask                 \* no self.mask_head
                /\ Raise("AttributeError:mask_head@238", <<pool>>)
                /\ roi_feats' = r
                /\ UNCHANGED mask_pred
    /\ UNCHANGED <<cfgvars, args, bound, trainvars, det_bboxes, det_labels,
                   bbox_results, result, proposal_list, refine_feats, binvars>>

\* lines 239-247: the refinement features, by test_cfg.rcnn.refine_sample
Refine_feats ==
    /\ pc = "refine_feats_test"
    /\ \/ /\ test_cfg.refine_sample = Absent
          /\ Raise("AttributeError:refine_sample@239", <<>>)
          /\ UNCHANGED refine_feats
       \/ /\ test_cfg.refine_sample = "resample"
          /\ refine_feats' = rois
          /\ calls' = calls \o <<Call("bbox_roi_extractor", 240, rois, <<>>, <<>>)>>
                            \o SharedHeadCall(247, rois)
          /\ pc' = "refine_decode"
          /\ UNCHANGED err
       \/ /\ test_cfg.refine_sample = "interpolate"
          /\ refine_feats' = roi_feats
          /\ calls' = calls \o <<Call("F.interpolate", 242, roi_feats, <<>>, <<>>)>>
                            \o SharedHeadCall(247, roi_feats)
          /\ pc' = "refine_decode"
          /\ UNCHANGED err
       \/ /\ test_cfg.refine_sample \notin {Absent, "resample", "interpolate"}
          /\ Raise("TypeError:max_pool2d@244", <<>>)   \* kernel_size missing
          /\ UNCHANGED refine_feats
    /\ UNCHANGED <<cfgvars, args, bound, trainvars, testvars, proposal_list, rois,
                   mask_pred, binvars>>

\* lines 249-262: binarize, refinement head, decode; lines 277-278 assign the
\* result to det_bboxes, det_labels
Refine_decode ==
    /\ pc = "refine_decode"
    /\ \/ /\ ~test_cfg.rcnn                   \* rcnn_test_cfg.rcnn
          /\ Raise("AttributeError:rcnn@249", <<>>)
          /\ UNCHANGED <<det_bboxes, det_labels>>
       \/ /\ test_cfg.rcnn
          /\ \E shift \in {0, 1}, keep \in 0..Len(rois) :
                LET dets == get_det_bboxes(rois, shift, args.scale_factor,
                                           args.rescale, keep)
                IN /\ det_bboxes' = dets
                   /\ \E labels \in [1..keep -> FgLabels] : det_labels' = labels
                   /\ calls' = calls \o
                        <<Call("mask_iou_head", 250, refine_feats, mask_pred, <<>>),
                          Call("bbox_head.get_det_bboxes", 253, rois, <<>>, dets)>>
          /\ pc' = "bbox2result"
          /\ UNCHANGED err
    /\ UNCHANGED <<cfgvars, args, bound, trainvars, refine_proposals, roi_feats,
                   bbox_results, result, sharedvars, binvars>>

\* lines 280-284: bbox2result on the refined detections
SimpleTest_bbox2result ==
    /\ pc = "bbox2result"
    /\ LET br == bbox2result(det_bboxes, det_labels, NumClasses)
       IN /\ bbox_results' = br
          /\ IF ~with_mask
             THEN /\ result' = <<br>>
                  /\ pc' = "returned"
             ELSE /\ pc' = "simple_test_mask"
                  /\ UNCHANGED result
    /\ UNCHANGED <<cfgvars, err, calls, args, bound, trainvars, det_bboxes,
                   det_labels, refine_proposals, roi_feats, sharedvars, binvars>>

\* lines 286-288 and 192-227: simple_test_mask on the refined detections
SimpleTest_simple_test_mask ==
    /\ pc = "simple_test_mask"
    /\ IF Len(det_bboxes) = 0
       THEN /\ result' = <<bbox_results, [c \in 1..(NumClasses - 1) |-> <<>>]>>
            /\ UNCHANGED calls
       ELSE LET bb == ToTestScale(det_bboxes, args.scale_factor, args.rescale)
                mask_rois == bbox2roi(<<bb>>)
                segm == bbox2result(bb, det_labels, NumClasses)
            IN /\ calls' = calls \o <<Call("mask_roi_extractor", 211, mask_rois, <<>>, <<>>)>>
                                 \o SharedHeadCall(214, mask_rois)
                                 \o <<Call("mask_head", 215, mask_rois, <<>>, <<>>),
                                      Call("mask_head.get_seg_masks", 216, mask_rois,
                                           <<>>, <<>>)>>
               /\ result' = <<bbox_results, segm>>
    /\ pc' = "returned"
    /\ UNCHANGED <<cfgvars, err, args, bound, trainvars, det_bboxes, det_labels,
                   refine_proposals, roi_feats, bbox_results, sharedvars, binvars>>

NextTest ==
    \/ SimpleTest_extract_feat
    \/ SimpleTest_propose
    \/ SimpleTest_simple_test_bboxes
    \/ Refine_pool
    \/ Refine_feats
    \/ Refine_decode
    \/ SimpleTest_bbox2result
    \/ SimpleTest_simple_test_mask

Next == NextTrain \/ NextTest
Spec == Init /\ [][Next]_vars

\* ------------------------------------------------- the two binarizations
\* One mask prediction and one threshold, binarized as line 168 does and as
\* lines 238 + 249 do.
InitBin ==
    /\ with_rpn = TRUE /\ with_bbox = TRUE /\ with_mask = TRUE
    /\ share_roi_extractor = FALSE /\ with_shared_head = FALSE
    /\ train_cfg = [refine_sample |-> "interpolate"]
    /\ test_cfg = [refine_sample |-> "interpolate", rcnn |-> TRUE]
    /\ entry = "binarize" /\ pc = "binarize"
    /\ LocalsInit
    /\ bin_mask \in MaskPreds
    /\ bin_thr \in 0..ProbScale
    /\ bin_train = <<>> /\ bin_test = <<>> /\ bin_done = {}

\* line 168
Binarize_train ==
    /\ pc = "binarize" /\ "train" \notin bin_done
    /\ bin_train' = TrainBinarization(bin_mask, bin_thr)
    /\ bin_done' = bin_done \cup {"train"}
    /\ UNCHANGED <<cfgvars, pc, err, calls, args, bound, trainvars, testvars,
                   sharedvars, bin_mask, bin_thr, bin_test>>

\* lines 238 and 249
Binarize_test ==
    /\ pc = "binarize" /\ "test" \notin bin_done
    /\ bin_test' = TestBinarization(DropBackground(bin_mask), bin_thr)
    /\ bin_done' = bin_done \cup {"test"}
    /\ UNCHANGED <<cfgvars, pc, err, calls, args, bound, trainvars, testvars,
                   sharedvars, bin_mask, bin_thr, bin_train>>

NextBin == Binarize_train \/ Binarize_test
SpecBin == InitBin /\ [][NextBin]_vars

\* ================================================================ claims
CallIdx == 1..Len(calls)
RefineHeadFns == {"mask_iou_head", "mask_iou_head.get_target", "mask_iou_head.loss"}

ExpectedLossKeys ==
    (IF with_rpn THEN {"loss_rpn"} ELSE {})
    \cup (IF with_bbox THEN {"loss_bbox"} ELSE {})
    \cup (IF with_mask THEN {"loss_mask", "loss_refine"} ELSE {})

\* C1: the loss mapping forward_train returns holds exactly the loss entries
\* of the enabled stages (RPN, box, mask together with refinement), and with
\* the mask head disabled the refinement head is never called.
C1_LossKeys ==
    entry = "forward_train" =>
        /\ pc = "returned" => losses = ExpectedLossKeys
        /\ ~with_mask => \A i \in CallIdx : calls[i].fn \notin RefineHeadFns

C1_Witness ==
    /\ entry = "forward_train" /\ pc = "returned"
    /\ with_rpn /\ with_bbox /\ with_mask
    /\ losses = {"loss_rpn", "loss_bbox", "loss_mask", "loss_refine"}
    /\ \E i \in CallIdx : calls[i].fn = "mask_iou_head"

RECURSIVE PositivesInOrder(_)
PositivesInOrder(i) ==
    IF i > Len(sampling_results) THEN <<>>
    ELSE [k \in 1..Len(sampling_results[i].pos) |-> <<i - 1, sampling_results[i].pos[k]>>]
         \o PositivesInOrder(i + 1)

\* C2: whenever the refinement head is called, in training and in the
\* inference refinement pass, its features and its binarized mask have the
\* same regions in the same order; in training these are the positive boxes
\* in image order, the order of the refinement targets, and in inference the
\* provisional boxes.
C2_RegionAlignment ==
    \A i \in CallIdx :
        calls[i].fn = "mask_iou_head" =>
            /\ Len(calls[i].rois) = Len(calls[i].mask)
            /\ calls[i].rois = calls[i].mask
            /\ entry = "forward_train" =>
                  /\ calls[i].rois = PositivesInOrder(1)
                  /\ refine_targets = calls[i].rois
            /\ entry = "simple_test" =>
                  /\ RoiBoxes(calls[i].rois) = refine_proposals
                  /\ \A k \in 1..Len(calls[i].rois) : calls[i].rois[k][1] = 0

C2_Witness ==
    /\ entry = "forward_train" /\ share_roi_extractor
    /\ Len(sampling_results) = 2
    /\ Len(sampling_results[1].pos) = 2 /\ Len(sampling_results[1].neg) = 1
    /\ Len(sampling_results[2].pos) = 1
    /\ \E i \in CallIdx :
          /\ calls[i].fn = "mask_iou_head"
          /\ calls[i].rois = <<<<0, 1>>, <<0, 2>>, <<1, 1>>>>
          /\ calls[i].mask = calls[i].rois

RefineFeatureErrors ==
    {"UnboundLocalError:pos_rois@163", "TypeError:max_pool2d@167"}

\* C3: for every value of refine_sample, in training (shared and separate
\* RoI extractor) and in inference, the refinement features are obtained as
\* the policy prescribes and the step completes: 'resample' pools with the
\* box-RoI extractor on the candidate boxes, 'interpolate' resizes the pooled
\* mask features with no further pooling call, any other value applies the
\* fallback reduction.  (Stated in full for the training step; for inference
\* the pooling calls of the two named policies.)
C3_PolicyCoverage ==
    /\ err \notin RefineFeatureErrors
    /\ (entry = "forward_train" /\ pc \in {"refine"}
           /\ train_cfg.refine_sample = "resample") =>
          \E i \in CallIdx : /\ calls[i].fn = "bbox_roi_extractor"
                             /\ calls[i].line = 163
                             /\ calls[i].rois = PositivesInOrder(1)
    /\ (entry = "forward_train" /\ train_cfg.refine_sample = "interpolate") =>
          \A i \in CallIdx : calls[i].line # 163
    /\ (entry = "simple_test" /\ pc = "refine_decode"
           /\ test_cfg.refine_sample = "resample") =>
          \E i \in CallIdx : /\ calls[i].fn = "bbox_roi_extractor"
                             /\ calls[i].line = 240
                             /\ RoiBoxes(calls[i].rois) = refine_proposals
    /\ (entry = "simple_test" /\ test_cfg.refine_sample = "interpolate") =>
          \A i \in CallIdx : calls[i].line # 240

RefineTestErrors ==
    {"RuntimeError:bbox2roi@235", "IndexError:bbox2roi@235",
     "TypeError:max_pool2d@244", "AttributeError:rcnn@249"}

\* C4: with zero provisional detections refine_test_bboxes returns an empty
\* (boxes, labels) result without raising, and with zero final detections
\* simple_test_mask returns one empty entry per foreground class without
\* invoking the mask RoI extractor or the mask head.
C4_ZeroDetections ==
    (entry = "simple_test" /\ with_mask) =>
        /\ err \in RefineTestErrors => refine_proposals # <<>>
        /\ (pc \in {"bbox2result", "simple_test_mask", "returned"}
               /\ refine_proposals = <<>>) =>
              (det_bboxes = <<>> /\ det_labels = <<>>)
        /\ (pc = "returned" /\ det_bboxes = <<>>) =>
              /\ result[2] = [c \in 1..(NumClasses - 1) |-> <<>>]
              /\ \A i \in CallIdx : calls[i].line \notin {211, 215}

IsDecode(c, line) == c.fn = "bbox_head.get_det_bboxes" /\ c.line = line

AtTestResolution(boxes) ==
    IF args.rescale THEN [k \in 1..Len(boxes) |-> boxes[k] * args.scale_factor]
    ELSE boxes

\* C5: for rescale false and true, every call of the mask-RoI extractor (in
\* the refinement pass and in the segmentation stage) receives the boxes at
\* test resolution: boxes an earlier stage rescaled to the original size are
\* multiplied back by scale_factor exactly once before pooling.
C5_TestResolution ==
    (entry = "simple_test" /\ with_mask) =>
        \* the boxes line 235 builds the mask RoIs from, unchanged, are the
        \* first pass's boxes brought back to test resolution
        /\ \A i \in CallIdx :
              (IsDecode(calls[i], 272) /\ pc # "refine_test_bboxes") =>
                  refine_proposals = AtTestResolution(calls[i].out)
        /\ \A i \in CallIdx :
              calls[i].fn = "mask_roi_extractor" =>
                  /\ calls[i].line = 236 =>
                        RoiBoxes(calls[i].rois) = AtTestResolution(refine_proposals)
                  /\ calls[i].line = 211 =>
                        RoiBoxes(calls[i].rois) = AtTestResolution(det_bboxes)

StageOf(c) ==
    CASE c.fn \in {"extract_feat", "simple_test_rpn"} -> 1
      [] c.line = 272 -> 2
      [] c.line \in 235..262 -> 3
      [] c.line \in 192..227 -> 4
      [] OTHER -> 0

\* C6: simple_test runs Propose, First-pass box scoring, Refinement pass and
\* Segmentation in this order; the first pass pools the proposals, the
\* refinement pass pools the provisional boxes the first pass decoded, the
\* segmentation pools the refined boxes, and the returned detection result
\* is built from the refined boxes and labels.
C6_StageOrder ==
    entry = "simple_test" =>
        /\ \A i, j \in CallIdx : i < j => StageOf(calls[i]) <= StageOf(calls[j])
        /\ \A i \in CallIdx : StageOf(calls[i]) >= 1
        /\ \A i \in CallIdx :
              (calls[i].fn = "bbox_roi_extractor" /\ calls[i].line = 272) =>
                  RoiBoxes(calls[i].rois) = proposal_list.boxes
        /\ \A j \in CallIdx :
              (calls[j].fn = "mask_roi_extractor" /\ calls[j].line = 236) =>
                  \E i \in 1..(j - 1) :
                      /\ IsDecode(calls[i], 272)
                      /\ RoiBoxes(calls[j].rois) = calls[i].out
        /\ \A j \in CallIdx :
              (calls[j].fn = "mask_roi_extractor" /\ calls[j].line = 211) =>
                  \E i \in 1..(j - 1) :
                      /\ IsDecode(calls[i], 253)
                      /\ RoiBoxes(calls[j].rois) = AtTestResolution(calls[i].out)
        /\ pc = "returned" =>
              \E i \in CallIdx :
                  /\ IsDecode(calls[i], 253)
                  /\ result[1] = bbox2result(calls[i].out, det_labels, NumClasses)

C6_Witness ==
    /\ entry = "simple_test" /\ pc = "returned" /\ with_mask
    /\ args.rescale /\ args.scale_factor = 2
    /\ Len(proposal_list.boxes) = 2 /\ Len(refine_proposals) = 2
    /\ Len(det_bboxes) = 1
    /\ Len(result) = 2
    /\ \E i \in CallIdx : calls[i].line = 211

\* C7: a configuration error of a training step (refine_sample absent from
\* train_cfg.rcnn, or the mask head enabled without a box head) is raised
\* before any computation: no collaborator has been called when it surfaces,
\* and no loss mapping is returned.
C7_ConfigErrorFirst ==
    entry = "forward_train" =>
        /\ err = "AttributeError:refine_sample@162" => calls = <<>>
        /\ (with_mask /\ ~with_bbox) => pc # "returned"

\* C8 (as stated): for every threshold in [0,1] and every 0/1 mask, the
\* training binarization and the inference binarization return the mask.
C8_Idempotent ==
    /\ ("train" \in bin_done /\ IsBinary(bin_mask)) =>
          bin_train = DropBackground(bin_mask)
    /\ ("test" \in bin_done /\ IsBinary(DropBackground(bin_mask))) =>
          bin_test = DropBackground(bin_mask)

\* C8 (amended): on a 0/1 mask the training binarization (>=) returns the
\* foreground channels unchanged for every threshold 0 < t <= 1, and the
\* inference binarization (>) returns the mask unchanged for every
\* threshold 0 <= t < 1.
C8_IdempotentInside ==
    /\ ("train" \in bin_done /\ IsBinary(bin_mask) /\ bin_thr > 0) =>
          bin_train = DropBackground(bin_mask)
    /\ ("test" \in bin_done /\ IsBinary(DropBackground(bin_mask))
           /\ bin_thr < ProbScale) =>
          bin_test = DropBackground(bin_mask)

C8_Witness ==
    /\ bin_done = {"train", "test"}
    /\ IsBinary(bin_mask)
    /\ bin_thr > 0 /\ bin_thr < ProbScale
    /\ \E p, q \in 1..NumPix : bin_mask[2][p] = 0 /\ bin_mask[2][q] = ProbScale
    /\ bin_train = DropBackground(bin_mask) /\ bin_test = DropBackground(bin_mask)

\* C9: the mask handed to the refinement head is produced by the same rule
\* in training and in inference: for every probability p and threshold t
\* the two binarizations give the same indicator value.
C9_SameRule ==
    bin_done = {"train", "test"} => bin_train = bin_test

\* C10: with a box head and no mask head, simple_test completes and returns
\* the detection results alone, and neither the mask head nor the mask-RoI
\* extractor is invoked; segmentation results are returned only with a mask
\* head.
C10_BoxOnly ==
    entry = "simple_test" =>
        /\ (with_bbox /\ ~with_mask) =>
              /\ err \notin {"RuntimeError:bbox2roi@235", "IndexError:bbox2roi@235",
                             "AttributeError:mask_roi_extractor@236",
                             "AttributeError:mask_head@238"}
              /\ \A i \in CallIdx : calls[i].fn \notin {"mask_roi_extractor", "mask_head"}
              /\ pc = "returned" => Len(result) = 1
        /\ (pc = "returned" /\ Len(result) = 2) => with_mask

====
